---- MODULE Spec2Model ----
(***************************************************************************)
(* Model of deh9000's DECORATE-style state parser (states_parser.py) and   *)
(* of the state remapper that copies parsed states into a state table.     *)
(*                                                                         *)
(* The text handed to parse() is modelled at the level of the regular      *)
(* expressions the parser matches: a text is a sequence of statements,     *)
(* each one a group of "label:" tokens followed by one line that matches   *)
(* FRAME_DEF_RE, LOOP_STATEMENT_RE, GOTO_STATEMENT_RE, STOP_STATEMENT_RE   *)
(* or nothing.  Python lists are 0-based: a list is a function on          *)
(* 0..len-1.  None is the string "None"; the integer 0 that Struct's       *)
(* constructor stores in an action field is the string "0".                *)
(***************************************************************************)
EXTENDS Integers, Sequences, FiniteSets, TLC

VARIABLES
    parser,     \* the _Parser object: states, state_labels, previous_state_id,
                \* loop_start_id, saved_gotos, and the exception raised ("" if none)
    text,       \* the statements of defstr consumed so far
    pc,         \* position in _Parser.parse: "parsing", "apply_gotos", "done", "error"
    goto_i,     \* index into saved_gotos of apply_gotos' loop
    new,        \* the state table remap_states copies into
    alloc_states, \* the caller's pool of free indexes into new (a list)
    remap,      \* the running remap_states call: its position, its arguments
                \* as passed, its locals, and the exception raised ("" if none)
    struct,     \* three c.Struct objects, the call made last on the first of
                \* them and the exception it raised ("" if none)
    returned    \* what the remap_states calls that have returned left with
                \* the caller: the map, and the pool and table they were given

pvars == <<parser, text, pc, goto_i>>
rvars == <<new, alloc_states, remap, struct, returned>>
vars == <<parser, text, pc, goto_i, new, alloc_states, remap, struct, returned>>

----------------------------------------------------------------------------
(* Bounds of the model *)

\* statements in one text
MaxLines == 4
\* "label:" tokens in one text
MaxLabels == 2

\* label names the texts draw from
LabelNames == {"a", "See", "seestate"}
\* labels the Goto lines of the texts name
GotoTargets == {"a", "seestate"}
\* offsets written after "Goto label +"
Offsets == {0, 1}

\* states of a list handed to remap_states, not counting old[0]
MaxOld == 3
\* entries of the pool handed to remap_states
MaxPool == 3

----------------------------------------------------------------------------
(* Python lists as functions on 0..len-1 *)

len(l) == Cardinality(DOMAIN l)

append(l, x) == l @@ (len(l) :> x)

EmptyList == [i \in {} |-> 0]

Range(s) == {s[i] : i \in DOMAIN s}

----------------------------------------------------------------------------
(* Records: c.Struct and state_t *)

None == "None"
\* the integer 0 Struct.__init__ puts in every field, in an action field
Zero == "0"

\* state_t(): every field starts at zero
state_t_default ==
    [sprite |-> 0, frame |-> 0, tics |-> 0, action |-> Zero, nextstate |-> 0]

\* state_t(sprite=, frame=, tics=, action=): zero, then the named overrides
state_t(sprite, frame, tics, action) ==
    [state_t_default EXCEPT !.sprite = sprite, !.frame = frame,
                            !.tics = tics, !.action = action]

\* state_t.field_names()
field_names == DOMAIN state_t_default

\* Struct.copy_from between two state_t: every field is overwritten
copy_from(self, other) ==
    [f \in DOMAIN self |-> IF f \in field_names THEN other[f] ELSE self[f]]

----------------------------------------------------------------------------
(* c.Struct objects of any type: __init__, set_values, copy_from, original, *)
(* diff. An object is its type, its _fields and its _original_values.       *)

\* most positional arguments of the calls made
MaxArgs == 1

\* the values passed as arguments and assigned to fields
ArgVals == {0, 1}

\* the names passed as keyword arguments: the first field of state_t, and
\* "bogus", which is a field of no type
KwNames == {"sprite", "bogus"}

\* the fields of state_t, in the order they are declared
state_t_fields == <<"sprite", "frame", "tics", "action", "nextstate">>

\* the fields of sfxinfo_t, in the order they are declared
sfxinfo_t_fields ==
    <<"name", "singularity", "priority", "link", "pitch", "volume", "data",
      "usefulness", "lumpnum">>

\* cls.field_names(): the StructField attributes sorted by their order
field_names_of(type) ==
    IF type = "state_t" THEN state_t_fields ELSE sfxinfo_t_fields

\* the position of a field in field_names()
field_index(type, f) ==
    CHOOSE i \in 1..Len(field_names_of(type)) : field_names_of(type)[i] = f

\* no keyword arguments: {}
NoKwargs == [k \in {} |-> 0]

\* the positional arguments of the calls: up to MaxArgs values, and one list
\* longer than the fields of state_t
ArgLists ==
    UNION {[1..n -> ArgVals] : n \in 0..MaxArgs}
        \cup {[i \in 1..(Len(state_t_fields) + 1) |-> 0]}

\* the keyword arguments of the calls
KwargDicts == UNION {[S -> ArgVals] : S \in SUBSET KwNames}

\* set_values raises ValueError: too many positional arguments, or a keyword
\* that is no field
set_values_raises(type, args, kwargs) ==
    \/ Len(args) > Len(field_names_of(type))
    \/ \E k \in DOMAIN kwargs : k \notin Range(field_names_of(type))

\* the keywords that can have been assigned when set_values returns or
\* raises: none if the positional arguments are too many, all if no keyword
\* is unknown, and otherwise those that kwargs.items() yields before the
\* first unknown one
applied_sets(type, args, kwargs) ==
    LET known == DOMAIN kwargs \cap Range(field_names_of(type))
    IN  IF Len(args) > Len(field_names_of(type)) THEN {{}}
        ELSE IF known = DOMAIN kwargs THEN {known}
        ELSE SUBSET known

\* the _fields set_values leaves: the positional values assigned from the
\* left, then the keywords in applied
Struct_set_values(fields, type, args, kwargs, applied) ==
    IF Len(args) > Len(field_names_of(type)) THEN fields
    ELSE [f \in DOMAIN fields |->
             IF f \in applied THEN kwargs[f]
             ELSE IF field_index(type, f) <= Len(args)
                  THEN args[field_index(type, f)]
                  ELSE fields[f]]

\* Struct.__init__ with accepted arguments: every field 0, set_values, and
\* the arguments saved
Struct_init(type, args, kwargs) ==
    [type |-> type,
     fields |-> Struct_set_values([f \in Range(field_names_of(type)) |-> 0],
                                  type, args, kwargs, DOMAIN kwargs),
     _original_values |-> <<args, kwargs>>]

\* a copy_from that takes the whole of the other object
copy_from_whole(self, other) == other

\* a copy_from that stops after the first field
copy_from_first(self, other) ==
    [self EXCEPT !.fields[field_names_of(self.type)[1]] =
                     other.fields[field_names_of(self.type)[1]]]

\* Struct.copy_from between objects of one type: setattr for every field
Struct_copy_from(self, other) ==
    [self EXCEPT !.fields = [f \in DOMAIN self.fields |-> other.fields[f]]]

\* an original() that replays the positional arguments only
original_positional(self) ==
    Struct_init(self.type, self._original_values[1], NoKwargs)

\* Struct.original(): type(self)(*args, **kwargs)
Struct_original(self) ==
    Struct_init(self.type, self._original_values[1], self._original_values[2])

\* Struct.diff(other): the fields that differ, in the order of field_names()
Struct_diff(self, other) ==
    SelectSeq(field_names_of(self.type),
              LAMBDA f : self.fields[f] # other.fields[f])

\* the state_t objects copied from
Sources ==
    {Struct_init("state_t", <<>>, NoKwargs),
     Struct_init("state_t", <<1, 1>>, ("tics" :> 1) @@ ("nextstate" :> -1)),
     Struct_init("state_t", <<1>>, ("sprite" :> 0) @@ ("nextstate" :> 1))}

\* the objects after a = state_t(*args, **kwargs): a, a state_t b and a
\* sfxinfo_t s; born holds the fields of a as __init__ left them
StructAfterInit(args, kwargs, b) ==
    [a |-> Struct_init("state_t", args, kwargs),
     b |-> b,
     s |-> Struct_init("sfxinfo_t", <<1>>, NoKwargs),
     born |-> Struct_init("state_t", args, kwargs).fields,
     last |-> "__init__", other |-> "", err |-> ""]

\* the objects of a program that makes no call on them
StructIdle ==
    StructAfterInit(<<>>, NoKwargs, Struct_init("state_t", <<>>, NoKwargs))

----------------------------------------------------------------------------
(* Tables of the parser *)

DECORATE_NAMES ==
    ("see" :> "seestate") @@ ("spawn" :> "spawnstate") @@
    ("pain" :> "painstate") @@ ("melee" :> "meleestate") @@
    ("missile" :> "missilestate") @@ ("death" :> "deathstate") @@
    ("xdeath" :> "xdeathstate") @@ ("raise" :> "raisestate") @@
    ("select" :> "upstate") @@ ("deselect" :> "downstate") @@
    ("ready" :> "readystate") @@ ("fire" :> "atkstate") @@
    ("flash" :> "flashstate")

\* str.lower() on the label names of the model
lower(name) == IF name = "See" THEN "see" ELSE name

\* spritenum_t.index("SPR_" + name.upper()), for the sprites the texts use
sprite_for_name(name) ==
    CASE name = "TROO" -> 0
      [] name = "SHTG" -> 1

\* action_pointer_for_name: None for no action, else the Action object of the
\* actions module, written as its name; the texts name known actions only
action_pointer_for_name(name) == IF name = None THEN None ELSE name

\* ord(fr.lower()) - ord('a')
LetterIndex(fr) ==
    CASE fr \in {"a", "A"} -> 0
      [] fr \in {"b", "B"} -> 1
      [] fr \in {"c", "C"} -> 2

BrightFlag == 32768

\* the groupdict of FRAME_DEF_RE for the frame lines the texts draw from
FrameDefs ==
    { [sprname |-> "TROO", frame |-> <<"A">>, tics |-> 10,
       bright |-> None, action |-> "A_Look"],
      [sprname |-> "SHTG", frame |-> <<"b", "A">>, tics |-> 3,
       bright |-> "bright", action |-> None] }

NoParams ==
    [sprname |-> "", frame |-> <<>>, tics |-> 0, bright |-> None, action |-> None]

\* construct_states: one state_t per frame letter, in letter order
construct_states(params) ==
    LET sprite_num == sprite_for_name(params.sprname)
        tics == params.tics
        is_bright == params.bright # None
        action == action_pointer_for_name(params.action)
    IN  [i \in 1..Len(params.frame) |->
            LET frame == LetterIndex(params.frame[i])
            IN  state_t(sprite_num,
                        IF is_bright THEN frame + BrightFlag ELSE frame,
                        tics, action)]

----------------------------------------------------------------------------
(* _Parser *)

\* _Parser.__init__
ParserInit ==
    [states |-> (0 :> state_t_default),
     state_labels |-> EmptyList,
     previous_state_id |-> -1,
     loop_start_id |-> -1,
     saved_gotos |-> <<>>,
     err |-> ""]

\* self.exception(s)
exception(p, s) == [p EXCEPT !.err = s]

\* parse_labels: the set of the label tokens in front of a line
parse_labels(tokens) == Range(tokens)

set_label(p, name, state_id) ==
    IF name \in DOMAIN p.state_labels
    THEN exception(p, "Label defined multiple times")
    ELSE LET l1 == (name :> state_id) @@ p.state_labels
             has_doom == lower(name) \in DOMAIN DECORATE_NAMES
             l2 == IF has_doom /\ DECORATE_NAMES[lower(name)] \notin DOMAIN l1
                   THEN (DECORATE_NAMES[lower(name)] :> state_id) @@ l1
                   ELSE l1
         IN  [p EXCEPT !.state_labels = l2, !.loop_start_id = state_id]

\* "for label in labels: self.set_label(label, state_id)", the set iterated
\* in the order given; an exception ends the loop
RECURSIVE set_labels(_, _, _)
set_labels(p, order, state_id) ==
    IF order = <<>> \/ p.err # "" THEN p
    ELSE set_labels(set_label(p, Head(order), state_id), Tail(order), state_id)

\* the loop body of parse_frame_def without "self.previous_state_id = state_id"
frame_def_step_stale_previous(p, state, order) ==
    LET state_id == len(p.states)
        s1 == append(p.states, state_t_default)
        s2 == [s1 EXCEPT ![state_id] = copy_from(s1[state_id], state)]
        s3 == IF p.previous_state_id # -1
              THEN [s2 EXCEPT ![p.previous_state_id].nextstate = state_id]
              ELSE s2
        p1 == [p EXCEPT !.states = s3]
    IN  set_labels(p1, order, state_id)

\* one iteration of parse_frame_def's loop over the constructed states
frame_def_step(p, state, order) ==
    LET state_id == len(p.states)
        s1 == append(p.states, state_t_default)
        s2 == [s1 EXCEPT ![state_id] = copy_from(s1[state_id], state)]
        s3 == IF p.previous_state_id # -1
              THEN [s2 EXCEPT ![p.previous_state_id].nextstate = state_id]
              ELSE s2
        p1 == [p EXCEPT !.states = s3, !.previous_state_id = state_id]
    IN  set_labels(p1, order, state_id)

RECURSIVE frame_def_loop(_, _, _)
frame_def_loop(p, new_states, order) ==
    IF new_states = <<>> \/ p.err # "" THEN p
    ELSE frame_def_loop(frame_def_step(p, Head(new_states), order),
                        Tail(new_states), <<>>)

\* parse_frame_def on a line that matches FRAME_DEF_RE
parse_frame_def(p, order, params) ==
    frame_def_loop(p, construct_states(params), order)

\* parse_loop without its check of loop_start_id
parse_loop_unchecked(p) ==
    IF p.previous_state_id = -1
    THEN exception(p, "Loop without a preceding state")
    ELSE [p EXCEPT !.states[p.previous_state_id].nextstate = p.loop_start_id,
                   !.previous_state_id = -1,
                   !.loop_start_id = -1]

\* parse_loop on a line that matches LOOP_STATEMENT_RE
parse_loop(p) ==
    IF p.previous_state_id = -1
    THEN exception(p, "Loop without a preceding state")
    ELSE IF p.loop_start_id = -1
    THEN exception(p, "Loop without a preceding label")
    ELSE [p EXCEPT !.states[p.previous_state_id].nextstate = p.loop_start_id,
                   !.previous_state_id = -1,
                   !.loop_start_id = -1]

\* parse_stop that leaves the run pending
parse_stop_pending(p) ==
    IF p.previous_state_id = -1
    THEN exception(p, "Stop without a preceding state")
    ELSE [p EXCEPT !.states[p.previous_state_id].tics = -1,
                   !.states[p.previous_state_id].nextstate = 0]

\* parse_stop on a line that matches STOP_STATEMENT_RE
parse_stop(p) ==
    IF p.previous_state_id = -1
    THEN exception(p, "Stop without a preceding state")
    ELSE [p EXCEPT !.states[p.previous_state_id].tics = -1,
                   !.states[p.previous_state_id].nextstate = 0,
                   !.previous_state_id = -1,
                   !.loop_start_id = -1]

\* parse_goto without its check for a pending state
parse_goto_unchecked(p, label, offset) ==
    [p EXCEPT !.saved_gotos =
                  Append(@, [state_id |-> p.previous_state_id,
                             label |-> label, offset |-> offset]),
              !.previous_state_id = -1,
              !.loop_start_id = -1]

\* parse_goto that keeps the label of the run it closes
parse_goto_keeps_label(p, label, offset) ==
    IF p.previous_state_id = -1
    THEN exception(p, "Goto without a previous state")
    ELSE [p EXCEPT !.saved_gotos =
                       Append(@, [state_id |-> p.previous_state_id,
                                  label |-> label, offset |-> offset]),
                   !.previous_state_id = -1]

\* parse_goto on a line that matches GOTO_STATEMENT_RE; the line number saved
\* for the error message is left out
parse_goto(p, label, offset) ==
    IF p.previous_state_id = -1
    THEN exception(p, "Goto without a previous state")
    ELSE [p EXCEPT !.saved_gotos =
                       Append(@, [state_id |-> p.previous_state_id,
                                  label |-> label, offset |-> offset]),
                   !.previous_state_id = -1,
                   !.loop_start_id = -1]

\* the loop of resolve_goto: [ok, state_id]; ok is FALSE where it raises
RECURSIVE follow(_, _, _)
follow(states, state_id, n) ==
    IF n = 0 THEN [ok |-> TRUE, state_id |-> state_id]
    ELSE LET next_state_id == states[state_id].nextstate
         IN  IF next_state_id = -1
             THEN [ok |-> FALSE, state_id |-> state_id]
             ELSE follow(states, next_state_id, n - 1)

\* one iteration of apply_gotos' loop, resolve_goto included
apply_goto(p, g) ==
    IF g.label \notin DOMAIN p.state_labels
    THEN exception(p, "Goto to unknown label")
    ELSE LET r == follow(p.states, p.state_labels[g.label], g.offset)
         IN  IF ~r.ok
             THEN exception(p, "Goto offset is longer than animation sequence")
             ELSE [p EXCEPT !.states[g.state_id].nextstate = r.state_id]

----------------------------------------------------------------------------
(* remap_states and _generate_old_to_new *)

\* a Struct instance: the field values and the constructor's arguments
instance(values) == values @@ [_original_values |-> values]

\* Struct.original(): a new instance from the saved constructor arguments
original(self) == instance(self._original_values)

\* the actions of the states the slots 1.. of the table were built with;
\* slot 0 is S_NULL
TableActions == <<"A_Look", None, "A_Chase", None>>

\* the actions the slots 1.. hold when remap_states is called: slots 2 and 3
\* have had their action field assigned since they were built
TableActionsNow == <<"A_Look", "A_Look", None, None>>

\* the table handed to remap_states as "new"
Table ==
    [i \in 0..Len(TableActions) |->
        IF i = 0
        THEN instance(state_t(0, 0, -1, None))
        ELSE [instance([state_t(i, 0, 5, TableActions[i]) EXCEPT !.nextstate = i])
                 EXCEPT !.action = TableActionsNow[i]]]

\* the pools handed to remap_states as "alloc_states": lists of indexes into
\* the table (a set is a list without repeats)
Pools == UNION {[1..n -> DOMAIN Table] : n \in 0..MaxPool}

\* the lists handed to remap_states as "old": old[0] is NULL, the others are
\* linked in a chain that ends in a loop to old[1], in 0, or in -1
OldLists ==
    UNION { { [i \in 0..n |->
                 IF i = 0 THEN state_t_default
                 ELSE [state_t(1, i - 1, 5, actions[i]) EXCEPT
                          !.nextstate = IF i < n THEN i + 1 ELSE last] ] :
              actions \in [1..n -> {None, "A_Look"}], last \in {1, 0, -1} } :
            n \in 0..MaxOld }

\* a removal that takes every x out of the list
remove_every(l, x) == SelectSeq(l, LAMBDA y : y # x)

\* list.remove(x): the list without its first x
remove(l, x) ==
    LET i == CHOOSE i \in 1..Len(l) : l[i] = x /\ \A j \in 1..(i - 1) : l[j] # x
    IN  SubSeq(l, 1, i - 1) \o SubSeq(l, i + 1, Len(l))

\* set.pop() that hands out x without taking it from the set
pop_keeps(S, x) == S

\* the set left by a set.pop() that returned x
pop(S, x) == S \ {x}

\* no remap_states call is running
RemapIdle ==
    [pc |-> "idle", err |-> "", old |-> (0 :> state_t_default),
     alloc_states0 |-> <<>>, new0 |-> Table,
     alloc_action |-> {}, alloc_non_action |-> {},
     old_to_new |-> (0 :> 0), old_id |-> 0]

\* a classification of slot x by the action it holds now
action_now(new_, x) == new_[x].action # None

\* new[state_id].original().action is not None
action_capable(new_, x) == original(new_[x]).action # None

\* a capacity check that lets every call through
never_too_few(old_, pool) == FALSE

\* the capacity check: len(old) - 1 > len(alloc_states)
too_few(old_, pool) == len(old_) - 1 > Len(pool)

\* _generate_old_to_new up to its allocation loop: the capacity check, the
\* two sets, old_to_new = [0] * len(old)
generate_begin(old_, new_, pool) ==
    IF too_few(old_, pool)
    THEN [RemapIdle EXCEPT !.pc = "error", !.err = "StateRemapException",
                           !.old = old_, !.alloc_states0 = pool, !.new0 = new_]
    ELSE [RemapIdle EXCEPT
             !.pc = IF len(old_) = 1 THEN "done" ELSE "alloc",
             !.old = old_, !.alloc_states0 = pool, !.new0 = new_,
             !.alloc_action = {x \in Range(pool) : action_capable(new_, x)},
             !.alloc_non_action = {x \in Range(pool) : ~action_capable(new_, x)},
             !.old_to_new = [i \in 0..(len(old_) - 1) |-> 0],
             !.old_id = 1]

\* an allocation loop that pops from alloc_action while it has entries,
\* whatever old[old_id] carries
pop_from_first(r) ==
    IF Cardinality(r.alloc_action) > 0 THEN "alloc_action" ELSE "alloc_non_action"

\* the set the allocation loop pops from for old[old_id]
pop_from(r) ==
    IF r.old[r.old_id].action # None
    THEN IF Cardinality(r.alloc_action) > 0 THEN "alloc_action"
         ELSE "alloc_non_action"
    ELSE IF Cardinality(r.alloc_non_action) > 0 THEN "alloc_non_action"
         ELSE "alloc_action"

\* one iteration of the allocation loop in which pop() returned new_id
generate_step(r, new_id) ==
    [r EXCEPT !.alloc_action =
                  IF pop_from(r) = "alloc_action" THEN pop(@, new_id) ELSE @,
              !.alloc_non_action =
                  IF pop_from(r) = "alloc_non_action" THEN pop(@, new_id) ELSE @,
              !.old_to_new[r.old_id] = new_id,
              !.old_id = IF r.old_id + 1 = len(r.old) THEN 1 ELSE r.old_id + 1,
              !.pc = IF r.old_id + 1 = len(r.old) THEN "copy" ELSE "alloc"]

\* a copy loop that copies old[0] into slot 0 as well
copy_step_from_zero(r, new_) ==
    [new_ EXCEPT ![r.old_to_new[r.old_id]] = copy_from(@, r.old[r.old_id]),
                 ![0] = copy_from(@, r.old[0])]

\* one iteration of the copy loop of remap_states: the slot written
copy_step(r, new_) ==
    LET new_id == r.old_to_new[r.old_id]
        copied == copy_from(new_[new_id], r.old[r.old_id])
        nextstate == copied.nextstate
    IN  [new_ EXCEPT ![new_id] =
            IF nextstate # -1
            THEN [copied EXCEPT !.nextstate = r.old_to_new[nextstate]]
            ELSE copied]

----------------------------------------------------------------------------
(* The texts *)

\* the orders in which Python may iterate the set of a label group
Orders(tokens) ==
    LET S == parse_labels(tokens)
    IN  {o \in [1..Cardinality(S) -> S] : \A i, j \in DOMAIN o : i # j => o[i] # o[j]}

RECURSIVE LabelTokens(_)
LabelTokens(t) ==
    IF t = <<>> THEN 0 ELSE Len(Head(t).labels) + LabelTokens(Tail(t))

\* the label groups a text may still hold
LabelGroups ==
    {g \in {<<>>} \cup [1..1 -> LabelNames] \cup [1..2 -> LabelNames] :
        LabelTokens(text) + Len(g) <= MaxLabels}

Statement(kind, labels, order, params, label, offset) ==
    [kind |-> kind, labels |-> labels, order |-> order, params |-> params,
     label |-> label, offset |-> offset]

----------------------------------------------------------------------------
(* _Parser.parse, one statement at a time *)

Init ==
    /\ parser = ParserInit
    /\ text = <<>>
    /\ pc = "parsing"
    /\ goto_i = 1
    /\ new = Table
    /\ alloc_states = <<>>
    /\ remap = RemapIdle
    /\ struct = StructIdle
    /\ returned = <<>>

Consume(st, p) ==
    /\ parser' = p
    /\ text' = Append(text, st)
    /\ pc' = IF p.err # "" THEN "error" ELSE "parsing"
    /\ UNCHANGED <<goto_i, rvars>>

\* a label group and a frame line: parse_frame_def returns True
ParseFrameDef ==
    /\ pc = "parsing"
    /\ Len(text) < MaxLines
    /\ \E g \in LabelGroups, params \in FrameDefs :
          \E o \in Orders(g) :
             Consume(Statement("frame", g, o, params, "", 0),
                     parse_frame_def(parser, o, params))

\* a label group and Loop: parse_frame_def drops the labels and returns False
ParseLoop ==
    /\ pc = "parsing"
    /\ Len(text) < MaxLines
    /\ \E g \in LabelGroups :
          Consume(Statement("loop", g, <<>>, NoParams, "", 0), parse_loop(parser))

ParseGoto ==
    /\ pc = "parsing"
    /\ Len(text) < MaxLines
    /\ \E g \in LabelGroups, label \in GotoTargets, offset \in Offsets :
          Consume(Statement("goto", g, <<>>, NoParams, label, offset),
                  parse_goto(parser, label, offset))

ParseStop ==
    /\ pc = "parsing"
    /\ Len(text) < MaxLines
    /\ \E g \in LabelGroups :
          Consume(Statement("stop", g, <<>>, NoParams, "", 0), parse_stop(parser))

\* a line that matches none of the four, or label tokens at the end of the text
ParseError ==
    /\ pc = "parsing"
    /\ Len(text) < MaxLines
    /\ \E g \in LabelGroups :
          Consume(Statement("other", g, <<>>, NoParams, "", 0),
                  exception(parser, "Parse error"))

\* more_lines() is False: the check after the loop of parse
EndOfInput ==
    /\ pc = "parsing"
    /\ IF parser.previous_state_id # -1
       THEN /\ parser' = exception(parser, "sequence should end in stop, loop, or goto")
            /\ pc' = "error"
       ELSE /\ parser' = parser
            /\ pc' = IF parser.saved_gotos = <<>> THEN "done" ELSE "apply_gotos"
    /\ UNCHANGED <<text, goto_i, rvars>>

\* one iteration of apply_gotos
ApplyGoto ==
    /\ pc = "apply_gotos"
    /\ LET p == apply_goto(parser, parser.saved_gotos[goto_i])
       IN  /\ parser' = p
           /\ pc' = IF p.err # "" THEN "error"
                    ELSE IF goto_i = Len(parser.saved_gotos) THEN "done"
                    ELSE "apply_gotos"
           /\ goto_i' = IF p.err # "" THEN goto_i ELSE goto_i + 1
    /\ UNCHANGED <<text, rvars>>

Next ==
    \/ ParseFrameDef
    \/ ParseLoop
    \/ ParseGoto
    \/ ParseStop
    \/ ParseError
    \/ EndOfInput
    \/ ApplyGoto

Spec == Init /\ [][Next]_vars

----------------------------------------------------------------------------
(* remap_states(old, new, alloc_states), one loop iteration at a time *)

InitRemap ==
    /\ parser = ParserInit
    /\ text = <<>>
    /\ pc = "parsing"
    /\ goto_i = 1
    /\ new = Table
    /\ alloc_states \in Pools
    /\ remap = RemapIdle
    /\ struct = StructIdle
    /\ returned = <<>>

\* the call with one of the lists as old, up to the allocation loop of
\* _generate_old_to_new
RemapStartWith(lists) ==
    /\ remap.pc = "idle"
    /\ \E old_ \in lists : remap' = generate_begin(old_, new, alloc_states)
    /\ UNCHANGED <<new, alloc_states, pvars, struct, returned>>

RemapStart == RemapStartWith(OldLists)

\* one iteration of the allocation loop; pop() on an empty set raises KeyError
RemapAlloc ==
    /\ remap.pc = "alloc"
    /\ LET S == IF pop_from(remap) = "alloc_action"
                THEN remap.alloc_action ELSE remap.alloc_non_action
       IN  IF S = {}
           THEN /\ remap' = [remap EXCEPT !.pc = "error", !.err = "KeyError"]
                /\ UNCHANGED alloc_states
           ELSE \E new_id \in S :
                    /\ remap' = generate_step(remap, new_id)
                    /\ alloc_states' = remove(alloc_states, new_id)
    /\ UNCHANGED <<new, pvars, struct, returned>>

\* one iteration of the copy loop; after the last one remap_states returns
RemapCopy ==
    /\ remap.pc = "copy"
    /\ new' = copy_step(remap, new)
    /\ remap' = [remap EXCEPT
                    !.old_id = @ + 1,
                    !.pc = IF remap.old_id + 1 = len(remap.old)
                           THEN "done" ELSE "copy"]
    /\ UNCHANGED <<alloc_states, pvars, struct, returned>>

NextRemap ==
    \/ RemapStart
    \/ RemapAlloc
    \/ RemapCopy

SpecRemap == InitRemap /\ [][NextRemap]_vars

----------------------------------------------------------------------------
(* Several remap_states calls, one after the other, on one table and pool *)

\* most calls made
MaxCalls == 2

\* remap_states returns old_to_new to its caller, who may call again with
\* the table and the pool as they are now
RemapReturn ==
    /\ remap.pc = "done"
    /\ Len(returned) + 1 < MaxCalls
    /\ returned' = Append(returned, [old_to_new |-> remap.old_to_new,
                                      alloc_states0 |-> remap.alloc_states0,
                                      new0 |-> remap.new0])
    /\ remap' = RemapIdle
    /\ UNCHANGED <<new, alloc_states, pvars, struct>>

\* the lists handed to the calls of a sequence: those whose last state
\* loops to old[1] and whose states all have the action of old[1]
LoopLists ==
    {l \in OldLists :
        len(l) = 1 \/ (/\ l[len(l) - 1].nextstate = 1
                       /\ \A i \in 1..(len(l) - 1) : l[i].action = l[1].action)}

RemapStartLoop == RemapStartWith(LoopLists)

NextRemapSeq ==
    \/ RemapStartLoop
    \/ RemapAlloc
    \/ RemapCopy
    \/ RemapReturn

SpecRemapSeq == InitRemap /\ [][NextRemapSeq]_vars

----------------------------------------------------------------------------
(* parse(defstr) as a function of the whole text *)

\* the handler that accepts a statement of the text
parse_statement(p, st) ==
    CASE st.kind = "frame" -> parse_frame_def(p, st.order, st.params)
      [] st.kind = "loop"  -> parse_loop(p)
      [] st.kind = "goto"  -> parse_goto(p, st.label, st.offset)
      [] st.kind = "stop"  -> parse_stop(p)
      [] OTHER             -> exception(p, "Parse error")

\* the while loop of parse
RECURSIVE parse_lines(_, _)
parse_lines(p, t) ==
    IF t = <<>> \/ p.err # "" THEN p
    ELSE parse_lines(parse_statement(p, Head(t)), Tail(t))

\* apply_gotos
RECURSIVE apply_gotos(_, _)
apply_gotos(p, gotos) ==
    IF gotos = <<>> \/ p.err # "" THEN p
    ELSE apply_gotos(apply_goto(p, Head(gotos)), Tail(gotos))

\* _Parser.parse
parse(t) ==
    LET p == parse_lines(ParserInit, t)
    IN  IF p.err # "" THEN p
        ELSE IF p.previous_state_id # -1
        THEN exception(p, "sequence should end in stop, loop, or goto")
        ELSE apply_gotos(p, p.saved_gotos)

----------------------------------------------------------------------------
(* What a text says, read off the text alone *)

Control == {"loop", "goto", "stop"}

\* parse() has returned
Accepted == pc = "done"

\* frame letters of statement i (0 for a line that is no frame line)
Letters(st) == Len(st.params.frame)

\* number of states the statements t[1..n] append
RECURSIVE StatesBefore(_, _)
StatesBefore(t, n) ==
    IF n = 0 THEN 0 ELSE Letters(t[n]) + StatesBefore(t, n - 1)

\* index of the first state of frame line i
FirstState(t, i) == StatesBefore(t, i - 1) + 1

\* index of the state in front of control statement i
PrecedingState(t, i) == StatesBefore(t, i - 1)

\* first statement of the run statement i belongs to
RunStart(t, i) ==
    LET ends == {j \in 1..(i - 1) : t[j].kind \in Control}
    IN  IF ends = {} THEN 1
        ELSE (CHOOSE j \in ends : \A k \in ends : k <= j) + 1

\* frame lines of the run of statement i, in front of i, that carry a label
LabelledFrames(t, i) ==
    {j \in RunStart(t, i)..(i - 1) : t[j].kind = "frame" /\ t[j].labels # <<>>}

\* the state reached from s by n links
RECURSIVE Hop(_, _, _)
Hop(states, s, n) ==
    IF n = 0 THEN s ELSE Hop(states, states[s].nextstate, n - 1)

\* the step machine computes parse(text)
StepsComputeParse == Accepted => parser = parse(text)

----------------------------------------------------------------------------
(* C1: after a successful parse, states[0] is the default NULL record and  *)
(* the nextstate of every state of the returned list is an index of the    *)
(* list (never -1); every label is bound to an index of the list, so the   *)
(* links followed from a label stay inside the list.                       *)
C1_LinksInsideList ==
    Accepted =>
        /\ parser.states[0] = state_t_default
        /\ \A i \in DOMAIN parser.states :
              parser.states[i].nextstate \in 0..(len(parser.states) - 1)
        /\ \A l \in DOMAIN parser.state_labels :
              /\ parser.state_labels[l] \in 1..(len(parser.states) - 1)
              /\ \A n \in 0..len(parser.states) :
                    Hop(parser.states, parser.state_labels[l], n) \in DOMAIN parser.states

\* a text with a Loop, and a Goto with an offset, has been accepted
C1_Witness ==
    /\ Accepted
    /\ \E i \in 1..Len(text) : text[i].kind = "loop"
    /\ \E i \in 1..Len(text) : text[i].kind = "goto" /\ text[i].offset > 0

----------------------------------------------------------------------------
(* C2: while a deferred "Goto L+k" is resolved, if the links followed from *)
(* L's state show the value 0 before k hops are taken, parse fails with    *)
(* the error for an offset longer than the sequence and the origin state   *)
(* is not written.                                                         *)

\* one of the first k links followed from s is 0
RECURSIVE HitsZero(_, _, _)
HitsZero(states, s, k) ==
    /\ k > 0
    /\ \/ states[s].nextstate = 0
       \/ HitsZero(states, states[s].nextstate, k - 1)

C2_OverrunRaises ==
    [][ ( /\ pc = "apply_gotos"
          /\ parser.saved_gotos[goto_i].label \in DOMAIN parser.state_labels
          /\ HitsZero(parser.states,
                      parser.state_labels[parser.saved_gotos[goto_i].label],
                      parser.saved_gotos[goto_i].offset) )
        => ( /\ parser'.err = "Goto offset is longer than animation sequence"
             /\ parser'.states = parser.states ) ]_vars

----------------------------------------------------------------------------
(* C4: in a text accepted so far, the state in front of every Loop links   *)
(* to the state of the label bound last, that label was bound in the run   *)
(* the Loop closes (so a Loop in a run without a label is rejected), and   *)
(* the links followed from that state come back to it.                     *)
C4_LoopCycle ==
    parser.err = "" =>
        \A i \in 1..Len(text) :
            text[i].kind = "loop" =>
                /\ LabelledFrames(text, i) # {}
                /\ LET j == CHOOSE j \in LabelledFrames(text, i) :
                                \A k \in LabelledFrames(text, i) : k <= j
                       target == FirstState(text, j)
                   IN  /\ parser.states[PrecedingState(text, i)].nextstate = target
                       /\ \A l \in Range(text[j].labels) :
                             parser.state_labels[l] = target
                       /\ \E n \in 1..len(parser.states) :
                             Hop(parser.states, target, n) = target

\* an accepted text with a Loop in a run that binds labels at two frame lines,
\* the Loop not closing a one-state run
C4_Witness ==
    /\ Accepted
    /\ \E i \in 1..Len(text) :
          /\ text[i].kind = "loop"
          /\ Cardinality(LabelledFrames(text, i)) = 2
          /\ parser.states[PrecedingState(text, i)].nextstate
                # PrecedingState(text, i)

----------------------------------------------------------------------------
(* C5: in a text accepted so far, the state in front of every Stop has     *)
(* tics = -1 and nextstate = 0, whatever its frame line said and whatever  *)
(* statements and goto resolutions came after the Stop.                    *)
C5_StopTerminal ==
    parser.err = "" =>
        \A i \in 1..Len(text) :
            text[i].kind = "stop" =>
                /\ parser.states[PrecedingState(text, i)].tics = -1
                /\ parser.states[PrecedingState(text, i)].nextstate = 0

\* an accepted text with a Stop after a frame line with tics 10, then a run
\* closed by a Goto that has been resolved to a state other than 0
C5_Witness ==
    /\ Accepted
    /\ \E i \in 1..Len(text), j \in 1..Len(text) :
          /\ i < j
          /\ text[i].kind = "stop" /\ text[i - 1].params.tics = 10
          /\ text[j].kind = "goto"
          /\ parser.states[PrecedingState(text, j)].nextstate # 0

----------------------------------------------------------------------------
(* C6: a text is accepted only if every run of frame lines is closed by    *)
(* one control statement: while no error is raised every Loop, Goto and    *)
(* Stop stands directly behind a frame line, a run is pending exactly      *)
(* behind a frame line, and the end of input is passed only with no run    *)
(* pending.                                                                *)
C6_RunsClosed ==
    parser.err = "" =>
        /\ \A i \in 1..Len(text) :
              /\ text[i].kind \in Control \cup {"frame"}
              /\ text[i].kind \in Control => i > 1 /\ text[i - 1].kind = "frame"
        /\ (parser.previous_state_id # -1)
              <=> (text # <<>> /\ text[Len(text)].kind = "frame")
        /\ pc \in {"apply_gotos", "done"} =>
              (text = <<>> \/ text[Len(text)].kind \in Control)

\* an accepted text with two runs, closed by two different control statements
C6_Witness ==
    /\ Accepted
    /\ Len(text) = 4
    /\ text[2].kind \in Control /\ text[4].kind \in Control
    /\ text[2].kind # text[4].kind

----------------------------------------------------------------------------
(* Reordering the blocks of a text *)

\* the runs of a text: the statements up to and including each control statement
RECURSIVE SplitRuns(_, _)
SplitRuns(t, cur) ==
    IF t = <<>> THEN (IF cur = <<>> THEN <<>> ELSE <<cur>>)
    ELSE LET c == Append(cur, Head(t))
         IN  IF Head(t).kind \in Control
             THEN <<c>> \o SplitRuns(Tail(t), <<>>)
             ELSE SplitRuns(Tail(t), c)

Runs(t) == SplitRuns(t, <<>>)

Perms(n) == {f \in [1..n -> 1..n] : \A i, j \in 1..n : i # j => f[i] # f[j]}

\* the runs perm[k], perm[k+1], ... one after the other
RECURSIVE Join(_, _, _)
Join(runs, perm, k) ==
    IF k > Len(runs) THEN <<>> ELSE runs[perm[k]] \o Join(runs, perm, k + 1)

Reordered(t, perm) == Join(Runs(t), perm, 1)

\* index of the first state of the k-th run of the reordered text
RECURSIVE RunFirst(_, _, _)
RunFirst(runs, perm, k) ==
    IF k = 1 THEN 1
    ELSE RunFirst(runs, perm, k - 1)
            + StatesBefore(runs[perm[k - 1]], Len(runs[perm[k - 1]]))

\* the index, in the reordered text, of state s of the text
Renumber(t, perm, s) ==
    IF s = 0 THEN 0
    ELSE LET runs == Runs(t)
             id == [k \in 1..Len(runs) |-> k]
             r == CHOOSE k \in 1..Len(runs) :
                     /\ RunFirst(runs, id, k) <= s
                     /\ s < RunFirst(runs, id, k) + StatesBefore(runs[k], Len(runs[k]))
             k1 == CHOOSE k \in 1..Len(runs) : perm[k] = r
         IN  RunFirst(runs, perm, k1) + (s - RunFirst(runs, id, r))

----------------------------------------------------------------------------
(* C3: goto resolution does not depend on the order of the blocks: when a  *)
(* text and a reordering of its blocks are both accepted, the origin state *)
(* of every Goto gets the same target in both, up to the renumbering of    *)
(* the states the reordering induces.                                      *)
C3_GotoOrderInvariant ==
    Accepted =>
        \A perm \in Perms(Len(Runs(text))) :
            LET q == parse(Reordered(text, perm))
            IN  q.err = "" =>
                    \A i \in 1..Len(parser.saved_gotos) :
                        LET origin == parser.saved_gotos[i].state_id
                        IN  q.states[Renumber(text, perm, origin)].nextstate
                              = Renumber(text, perm, parser.states[origin].nextstate)

----------------------------------------------------------------------------
(* C7: a label name defined more than once in the input, in front of two   *)
(* frame lines or twice in the label group of one frame line, makes parse  *)
(* fail: no accepted text holds two definitions of one name.               *)

\* the label tokens in front of frame lines: <<statement, position in its group>>
FrameLabelTokens(t) ==
    UNION { {<<i, k>> : k \in 1..Len(t[i].labels)} :
              i \in {j \in 1..Len(t) : t[j].kind = "frame"} }

C7_DuplicateLabelRejected ==
    Accepted =>
        \A x, y \in FrameLabelTokens(text) :
            x # y => text[x[1]].labels[x[2]] # text[y[1]].labels[y[2]]

----------------------------------------------------------------------------
(* C8: an alias never blocks or overrides a label spelled with the         *)
(* canonical name: a frame line with one label in front raises the         *)
(* duplicate-label error only if that name is written in front of an       *)
(* earlier frame line; in a text accepted so far every                     *)
(* label written in front of a frame line maps to the first state of that  *)
(* line, and a canonical name that is not written maps to the first state  *)
(* of the first frame line with a label that aliases to it.                *)

FrameLines(t) == {i \in 1..Len(t) : t[i].kind = "frame"}

\* the label names of frame line i whose alias is the canonical name c
Aliasing(t, i, c) ==
    {l \in Range(t[i].labels) :
        lower(l) \in DOMAIN DECORATE_NAMES /\ DECORATE_NAMES[lower(l)] = c}

C8_AliasNeverBlocks ==
    /\ ( /\ parser.err = "Label defined multiple times"
         /\ Len(text[Len(text)].labels) = 1 ) =>
          \E i \in FrameLines(text) :
              i < Len(text) /\ text[Len(text)].labels[1] \in Range(text[i].labels)
    /\ parser.err = "" =>
          /\ \A i \in FrameLines(text) : \A l \in Range(text[i].labels) :
                parser.state_labels[l] = FirstState(text, i)
          /\ \A c \in Range(DECORATE_NAMES) :
                LET written == {i \in FrameLines(text) : c \in Range(text[i].labels)}
                    aliased == {i \in FrameLines(text) : Aliasing(text, i, c) # {}}
                IN  (written = {} /\ aliased # {}) =>
                        /\ c \in DOMAIN parser.state_labels
                        /\ parser.state_labels[c] =
                              FirstState(text, CHOOSE i \in aliased :
                                                  \A j \in aliased : i <= j)

----------------------------------------------------------------------------
(* C9: an accepted frame line with n letters appends n states, in letter   *)
(* order, with the line's sprite, tics and action and frame = letter index *)
(* (plus the bright flag); the first is linked from the last state of a    *)
(* frame line directly in front of it, each next one from the one before;  *)
(* the labels in front of the line are bound to the first of the n states; *)
(* no other state and no other label changes.  So the number of non-NULL   *)
(* states is the number of frame letters of the text.                      *)
C9_FrameLineAppends ==
    [][ /\ ( /\ pc = "parsing" /\ parser'.err = ""
             /\ Len(text') = Len(text) + 1
             /\ text'[Len(text')].kind = "frame" )
           => LET st == text'[Len(text')]
                  n == Len(st.params.frame)
                  base == len(parser.states)
                  pending == text # <<>> /\ text[Len(text)].kind = "frame"
              IN  /\ len(parser'.states) = base + n
                  /\ \A k \in 1..n :
                        parser'.states[base + k - 1] =
                            [sprite |-> sprite_for_name(st.params.sprname),
                             frame |-> LetterIndex(st.params.frame[k])
                                         + (IF st.params.bright = "bright"
                                            THEN BrightFlag ELSE 0),
                             tics |-> st.params.tics,
                             action |-> st.params.action,
                             nextstate |-> IF k < n THEN base + k ELSE 0]
                  /\ \A i \in 0..(base - 1) :
                        parser'.states[i] =
                            IF pending /\ i = base - 1
                            THEN [parser.states[i] EXCEPT !.nextstate = base]
                            ELSE parser.states[i]
                  /\ \A l \in Range(st.labels) : parser'.state_labels[l] = base
                  /\ \A l \in DOMAIN parser'.state_labels :
                        \/ parser'.state_labels[l] = base
                        \/ /\ l \in DOMAIN parser.state_labels
                           /\ parser'.state_labels[l] = parser.state_labels[l]
        /\ parser'.err = "" =>
              len(parser'.states) - 1 = StatesBefore(text', Len(text'))
      ]_vars

\* a labelled two-letter bright frame line accepted directly behind a frame line
C9_Witness ==
    /\ parser.err = ""
    /\ Len(text) >= 2
    /\ text[Len(text)].kind = "frame" /\ text[Len(text) - 1].kind = "frame"
    /\ Len(text[Len(text)].params.frame) = 2
    /\ text[Len(text)].params.bright = "bright"
    /\ text[Len(text)].labels # <<>>
    /\ parser.states[len(parser.states) - 1].frame = BrightFlag

----------------------------------------------------------------------------
(* C10: when _generate_old_to_new has returned, the map sends 0 to 0, is   *)
(* injective on 1..len(old)-1, and every entry from 1 on is an index that  *)
(* was in the pool when remap_states was called.                           *)
C10_MapInjectiveFromPool ==
    remap.pc \in {"copy", "done"} =>
        LET m == remap.old_to_new
            placed == 1..(len(remap.old) - 1)
        IN  /\ DOMAIN m = DOMAIN remap.old
            /\ m[0] = 0
            /\ \A i, j \in placed : i # j => m[i] # m[j]
            /\ \A i \in placed : m[i] \in Range(remap.alloc_states0)

\* a call has returned that placed two states from a pool that held index 0
\* and one index twice, one of the states in slot 0
C10_Witness ==
    /\ remap.pc = "done"
    /\ len(remap.old) = 3
    /\ 0 \in Range(remap.alloc_states0)
    /\ Cardinality(Range(remap.alloc_states0)) < Len(remap.alloc_states0)
    /\ \E i \in 1..2 : remap.old_to_new[i] = 0

----------------------------------------------------------------------------
(* Calls on the c.Struct object a *)

InitStruct ==
    /\ parser = ParserInit
    /\ text = <<>>
    /\ pc = "parsing"
    /\ goto_i = 1
    /\ new = Table
    /\ alloc_states = <<>>
    /\ remap = RemapIdle
    /\ returned = <<>>
    /\ \E args \in ArgLists, kwargs \in KwargDicts, b \in Sources :
           /\ ~set_values_raises("state_t", args, kwargs)
           /\ struct = StructAfterInit(args, kwargs, b)

\* the object a name stands for
Obj(st, name) == IF name = "a" THEN st.a ELSE IF name = "b" THEN st.b ELSE st.s

\* a.f = v
StructSetattr ==
    /\ \E f \in Range(field_names_of(struct.a.type)), v \in ArgVals :
           struct' = [struct EXCEPT !.a.fields[f] = v,
                                    !.last = "setattr", !.other = "", !.err = ""]
    /\ UNCHANGED <<pvars, new, alloc_states, remap, returned>>

\* a.set_values(*args, **kwargs)
StructSetValues ==
    /\ \E args \in ArgLists, kwargs \in KwargDicts :
         \E applied \in applied_sets(struct.a.type, args, kwargs) :
           struct' = [struct EXCEPT
                         !.a.fields = Struct_set_values(@, struct.a.type, args,
                                                        kwargs, applied),
                         !.last = "set_values", !.other = "",
                         !.err = IF set_values_raises(struct.a.type, args, kwargs)
                                 THEN "ValueError" ELSE ""]
    /\ UNCHANGED <<pvars, new, alloc_states, remap, returned>>

\* a.copy_from(other); the assert fails for an object of another type
StructCopyFrom ==
    /\ \E name \in {"a", "b", "s"} :
           IF Obj(struct, name).type = struct.a.type
           THEN struct' = [struct EXCEPT
                              !.a = Struct_copy_from(@, Obj(struct, name)),
                              !.last = "copy_from", !.other = name, !.err = ""]
           ELSE struct' = [struct EXCEPT
                              !.last = "copy_from", !.other = name,
                              !.err = "AssertionError"]
    /\ UNCHANGED <<pvars, new, alloc_states, remap, returned>>

\* the body of the copy loop of remap_states with a as new[new_id] and b as
\* old[old_id]: copy_from, then the link rewritten to an entry of old_to_new
StructRemapCopy ==
    /\ \E new_link \in ArgVals :
           LET copied == Struct_copy_from(struct.a, struct.b)
           IN  struct' = [struct EXCEPT
                             !.a = IF copied.fields.nextstate # -1
                                   THEN [copied EXCEPT !.fields.nextstate = new_link]
                                   ELSE copied,
                             !.last = "remap_states", !.other = "b", !.err = ""]
    /\ UNCHANGED <<pvars, new, alloc_states, remap, returned>>

NextStruct ==
    \/ StructSetattr
    \/ StructSetValues
    \/ StructCopyFrom
    \/ StructRemapCopy

SpecStruct == InitStruct /\ [][NextStruct]_vars

----------------------------------------------------------------------------
(* the successful call: remap_states has returned old_to_new *)

\* the source indexes that are placed: range(1, len(old))
Placed == 1..(len(remap.old) - 1)

\* the indexes the call assigned: old_to_new[1:]
Assigned == {remap.old_to_new[i] : i \in Placed}

\* list.count(x)
count(l, x) == Cardinality({i \in 1..Len(l) : l[i] = x})

\* a collection without repeats: a set, or a list of distinct indexes
Distinct(l) == \A i, j \in 1..Len(l) : i # j => l[i] # l[j]

C12_NoUnresolvedLink ==
    remap.pc = "done" => \A i \in Placed : new[remap.old_to_new[i]].nextstate # -1

(* C13: when remap_states has returned, for every source index i >= 1 the  *)
(* slot new[old_to_new[i]] holds the sprite, frame, tics and action of      *)
(* old[i], and its nextstate is old_to_new[old[i].nextstate], the link of   *)
(* old[i] being an index of the source list; a source link of 0 stays 0.    *)
C13_LinksRemapped ==
    remap.pc = "done" =>
        \A i \in Placed :
            LET slot == new[remap.old_to_new[i]]
                link == remap.old[i].nextstate
            IN  /\ \A f \in {"sprite", "frame", "tics", "action"} :
                       slot[f] = remap.old[i][f]
                /\ link \in DOMAIN remap.old
                /\ slot.nextstate = remap.old_to_new[link]
                /\ link = 0 => slot.nextstate = 0

\* the slots of the pool still free when old[i] is placed
Left(i) == Range(remap.alloc_states0) \ {remap.old_to_new[j] : j \in 1..(i - 1)}

\* the slot was built with an action: the action of its original snapshot
Capable(x) == remap.new0[x]._original_values.action # None

\* old[i] carries an action
Carries(i) == remap.old[i].action # None

(* C14: when the map is built, every source state i (placed in ascending    *)
(* order from the slots still free) that carries an action sits in a slot   *)
(* built without action only if no free slot built with an action was left  *)
(* when it was placed, and a state without action sits in a slot built with *)
(* an action only if no free slot built without action was left; a slot     *)
(* counts as built with an action by its original snapshot, not by the      *)
(* action it holds now.                                                     *)
C14_PartitionPreference ==
    remap.pc \in {"copy", "done"} =>
        \A i \in Placed :
            LET new_id == remap.old_to_new[i]
            IN  /\ new_id \in Left(i)
                /\ (Carries(i) /\ ~Capable(new_id)) =>
                       \A x \in Left(i) : ~Capable(x)
                /\ (~Carries(i) /\ Capable(new_id)) =>
                       \A x \in Left(i) : Capable(x)

\* a call has returned that placed two states carrying an action from a pool
\* of slots 2, 3 and 4: the first in slot 3, built with an action and
\* holding none now, the second in a slot built without action, although
\* slot 2 holds an action now
C14_Witness ==
    /\ remap.pc = "done"
    /\ len(remap.old) = 3
    /\ Range(remap.alloc_states0) = {2, 3, 4}
    /\ Carries(1) /\ Carries(2)
    /\ remap.old_to_new[1] = 3
    /\ remap.new0[3].action = None
    /\ remap.new0[2].action # None
    /\ ~Capable(remap.old_to_new[2])

(* C15: a call whose pool offers fewer slots than the len(old)-1 states to  *)
(* place does not return a map, and a call that fails fails with            *)
(* StateRemapException, also when the pool is a list long enough that holds *)
(* an index more than once.                                                 *)
C15_ShortageRaisesRemapException ==
    /\ (remap.pc # "idle" /\
            Cardinality(Range(remap.alloc_states0)) < len(remap.old) - 1) =>
           remap.pc \in {"alloc", "error"}
    /\ remap.pc = "error" => remap.err = "StateRemapException"

\* the source states placed in slots of the other kind
ActionInPlain == {i \in Placed : Carries(i) /\ ~Capable(remap.old_to_new[i])}
PlainInAction == {i \in Placed : ~Carries(i) /\ Capable(remap.old_to_new[i])}

\* min(a, b)
min(a, b) == IF a < b THEN a ELSE b

(* C19: when remap_states has returned from a call with a pool of distinct  *)
(* indexes, not both kinds of mismatch have occurred (a state carrying an   *)
(* action in a slot built without one, and a state without action in a slot *)
(* built with one), and the number of states carrying an action that sit in *)
(* slots built with an action is the smaller of the number of such states   *)
(* and the number of such slots in the pool.                                *)
C19_OneKindOfMismatch ==
    (remap.pc = "done" /\ Distinct(remap.alloc_states0)) =>
        /\ ActionInPlain = {} \/ PlainInAction = {}
        /\ Cardinality({i \in Placed : Carries(i) /\ Capable(remap.old_to_new[i])}) =
               min(Cardinality({i \in Placed : Carries(i)}),
                   Cardinality({x \in Range(remap.alloc_states0) : Capable(x)}))

\* a call has returned that placed an action-less state first and two
\* states carrying an action after it from a pool of three distinct slots,
\* one of them built with an action: one mismatch has occurred
C19_Witness ==
    /\ remap.pc = "done"
    /\ len(remap.old) = 4
    /\ Distinct(remap.alloc_states0)
    /\ ~Carries(1) /\ Carries(2) /\ Carries(3)
    /\ Cardinality({x \in Range(remap.alloc_states0) : Capable(x)}) = 1
    /\ Cardinality(ActionInPlain) = 1
    /\ PlainInAction = {}

(* C20: a call whose pool has fewer entries than len(old)-1 fails with     *)
(* StateRemapException before it has changed anything: the pool and every   *)
(* slot of the table are as they were when the call began.                  *)
C20_CapacityFailureMutatesNothing ==
    (remap.pc # "idle" /\ Len(remap.alloc_states0) < len(remap.old) - 1) =>
        /\ remap.pc = "error"
        /\ remap.err = "StateRemapException"
        /\ alloc_states = remap.alloc_states0
        /\ new = remap.new0

\* a call with three states to place and a pool of two entries has failed
C20_Witness ==
    /\ remap.pc = "error"
    /\ remap.err = "StateRemapException"
    /\ len(remap.old) = 4
    /\ Len(remap.alloc_states0) = 2
    /\ alloc_states = remap.alloc_states0

----------------------------------------------------------------------------
(* The records *)

(* C16: whatever field assignments, set_values calls, copy_from calls and  *)
(* copies by remap_states have been made on a record, original() returns a  *)
(* record of its type whose fields are the values the record had when its   *)
(* constructor returned, and that saves the same constructor arguments.     *)
C16_OriginalFixed ==
    /\ Struct_original(struct.a).type = struct.a.type
    /\ Struct_original(struct.a).fields = struct.born
    /\ Struct_original(struct.a)._original_values = struct.a._original_values

\* remap_states has copied b, whose link is 1, into a, a record built from a
\* positional and a named argument, and has left a with another link than
\* it was built with
C16_Witness ==
    /\ struct.last = "remap_states"
    /\ Len(struct.a._original_values[1]) = 1
    /\ DOMAIN struct.a._original_values[2] = {"sprite"}
    /\ struct.b.fields.nextstate = 1
    /\ Len(Struct_diff(struct.a, Struct_original(struct.a))) >= 1
    /\ struct.a.fields.nextstate # struct.born.nextstate

\* the value __init__ gives field f: the named argument, else the
\* positional one, else 0
construct_value(type, args, kwargs, f) ==
    IF f \in DOMAIN kwargs THEN kwargs[f]
    ELSE IF field_index(type, f) <= Len(args) THEN args[field_index(type, f)]
    ELSE 0

(* C17: right after a record is built from accepted positional and named    *)
(* arguments, every field holds its named argument, else its positional     *)
(* one, else 0, and diff() against original() is the empty list; at any     *)
(* time later diff() is the list, in the order of declaration, of the       *)
(* fields whose value is not the one they had when the constructor          *)
(* returned.                                                                *)
C17_DiffAgainstOriginal ==
    LET a == struct.a
        names == field_names_of(a.type)
    IN  /\ struct.last = "__init__" =>
               /\ \A f \in Range(names) :
                      a.fields[f] = construct_value(a.type, a._original_values[1],
                                                    a._original_values[2], f)
               /\ Struct_diff(a, Struct_original(a)) = <<>>
        /\ Struct_diff(a, Struct_original(a)) =
               SelectSeq(names, LAMBDA f : a.fields[f] # struct.born[f])

\* a record built with a named value over a positional one for its first
\* field differs from its original in its first and its last field
C17_Witness ==
    /\ struct.a._original_values[1] = <<0>>
    /\ struct.a._original_values[2] = ("sprite" :> 1)
    /\ struct.born.sprite = 1
    /\ Struct_diff(struct.a, Struct_original(struct.a)) = <<"sprite", "nextstate">>

(* C18: a copy_from call with a record of the same type raises nothing and  *)
(* leaves the receiver with diff(other) empty, the other record and the     *)
(* original() of the receiver as they were; with a record of another type   *)
(* it raises the error of the type check and leaves every field of the      *)
(* receiver as it was.                                                      *)
C18_CopyFromFrame ==
    [][ struct'.last = "copy_from" =>
          LET other == Obj(struct, struct'.other)
          IN  IF other.type = struct.a.type
              THEN /\ struct'.err = ""
                   /\ Struct_diff(struct'.a, Obj(struct', struct'.other)) = <<>>
                   /\ struct'.other # "a" => Obj(struct', struct'.other) = other
                   /\ struct'.b = struct.b /\ struct'.s = struct.s
                   /\ Struct_original(struct'.a) = Struct_original(struct.a)
              ELSE /\ struct'.err = "AssertionError"
                   /\ struct'.a = struct.a
                   /\ struct'.b = struct.b /\ struct'.s = struct.s ]_vars

\* a.copy_from(b) has returned and has left a unlike its original in four
\* fields
C18_Witness ==
    /\ struct.last = "copy_from"
    /\ struct.other = "b"
    /\ struct.err = ""
    /\ struct.a.fields = struct.b.fields
    /\ Len(Struct_diff(struct.a, Struct_original(struct.a))) = 4

----------------------------------------------------------------------------
(* Calls that share a table and a pool *)

\* the slots a returned map assigned: old_to_new[1:]
AssignedBy(old_to_new) == {old_to_new[i] : i \in DOMAIN old_to_new \ {0}}

\* the calls that have returned, the one that has just returned last
Calls ==
    IF remap.pc = "done"
    THEN Append(returned, [old_to_new |-> remap.old_to_new,
                           alloc_states0 |-> remap.alloc_states0,
                           new0 |-> remap.new0])
    ELSE returned

\* the table call k left behind: the one the next call was given, or the
\* table as it is now if no call has begun since
TableAfter(k) ==
    IF k < Len(Calls) THEN Calls[k + 1].new0
    ELSE IF remap.pc \in {"idle", "done"} THEN new
    ELSE remap.new0

(* C21: a remap_states call that has returned has left every slot of the    *)
(* table that its map does not assign as the slot was when the call began,  *)
(* and of calls that have returned one after the other on one table and     *)
(* one pool, the pool being of distinct indexes at first, no two have       *)
(* assigned, and so written, the same slot.                                 *)
C21_OnlyAssignedSlotsWritten ==
    /\ \A k \in 1..Len(Calls) :
           \A x \in DOMAIN new \ AssignedBy(Calls[k].old_to_new) :
               TableAfter(k)[x] = Calls[k].new0[x]
    /\ (Calls # <<>> /\ Distinct(Calls[1].alloc_states0)) =>
           \A j, k \in 1..Len(Calls) :
               j < k => AssignedBy(Calls[j].old_to_new) \cap
                            AssignedBy(Calls[k].old_to_new) = {}

\* two calls have returned, the first has placed one state and the second
\* two from a pool of three distinct indexes, and the slot of the first
\* call holds what the first call left in it
C21_Witness ==
    /\ remap.pc = "done"
    /\ Len(returned) = 1
    /\ Len(returned[1].alloc_states0) = 3
    /\ Distinct(returned[1].alloc_states0)
    /\ Cardinality(AssignedBy(returned[1].old_to_new)) = 1
    /\ Cardinality(AssignedBy(remap.old_to_new)) = 2
    /\ \A x \in AssignedBy(returned[1].old_to_new) :
           new[x] = remap.new0[x] /\ new[x] # returned[1].new0[x]

----------------------------------------------------------------------------
\* the label names written in the text, in front of any statement
WrittenLabels(t) == UNION {Range(t[i].labels) : i \in 1..Len(t)}

(* C22: every label written in an accepted text, in front of a frame line  *)
(* or in front of Loop, Goto or Stop, is a key of the label map that parse  *)
(* returns, and parse never fails with "Goto to unknown label" on a goto    *)
(* whose label is written in the text.                                      *)
C22_EveryLabelBound ==
    /\ Accepted => WrittenLabels(text) \subseteq DOMAIN parser.state_labels
    /\ (pc = "error" /\ parser.err = "Goto to unknown label") =>
           parser.saved_gotos[goto_i].label \notin WrittenLabels(text)

====
